---- MODULE Spec2Model ----
(***************************************************************************)
(* Model of the hashtag collocation pipeline of                            *)
(* 27:Nov:2024/3_hashtags_cal_collo/"import json.py":                      *)
(*   load_and_extract_hashtags -> calculate_cooccurrence_matrix ->         *)
(*   calculate_pmi -> get_top_collocations (analyze_hashtag_collocations). *)
(*                                                                         *)
(* Numbers.  pandas/numpy floats are modelled by exact rationals plus the  *)
(* two IEEE results a division by zero produces (nan for 0/0, inf for      *)
(* x/0, x > 0): numpy scalars do not raise on a zero divisor.  A PMI score *)
(* log2(r) is represented by its argument r; log2 is strictly increasing,  *)
(* so scores compare as their arguments do, and log2(1) is the score 0.    *)
(* Rounding of doubles is not modelled.  Storing a float score in the       *)
(* integer-initialised pmi_matrix upcasts the cell (pandas 2.x).           *)
(***************************************************************************)
EXTENDS Integers, Sequences, FiniteSets

VARIABLES records, pc, i, all_post_hashtags, unique_hashtags,
          cooccurrence_matrix, total_cooccurrences, marginal_probs,
          pmi_matrix, n, top_collocations

vars == <<records, pc, i, all_post_hashtags, unique_hashtags,
          cooccurrence_matrix, total_cooccurrences, marginal_probs,
          pmi_matrix, n, top_collocations>>

(***************************************************************************)
(* Bounds of the model and the tag alphabets.                              *)
(***************************************************************************)
MaxRecords == 2
MaxTotalTags == 4
MaxN == 4
DefaultN == 10

RawTags == {"A", "a", "b", "c"}
Tags == {"a", "b", "c"}

\* A normalisation that leaves the case of a tag as it is.
LowerKeepsCase(t) == t

\* str.lower() on the alphabet.
Lower(t) == IF t = "A" THEN "a" ELSE t

\* Code point of a one-letter tag: Python orders str by code point.
CodePoint(t) == CASE t = "A" -> 65 [] t = "a" -> 97 [] t = "b" -> 98 [] t = "c" -> 99

\* tag1 < tag2 on str.
TagLess(t1, t2) == CodePoint(t1) < CodePoint(t2)

SeqUpTo(S, k) == UNION {[1..j -> S] : j \in 0..k}

Min(x, y) == IF x <= y THEN x ELSE y

RECURSIVE SumFn(_, _)
SumFn(f, S) == IF S = {} THEN 0
               ELSE LET x == CHOOSE y \in S : TRUE
                    IN f[x] + SumFn(f, S \ {x})

RECURSIVE GCD(_, _)
GCD(x, y) == IF y = 0 THEN x ELSE GCD(y, x % y)

(***************************************************************************)
(* Floats: [k, n, d] with k = "fin" (the rational n/d in lowest terms,     *)
(* d > 0), "nan" or "inf".                                                 *)
(***************************************************************************)
NaN == [k |-> "nan", n |-> 0, d |-> 0]
PosInf == [k |-> "inf", n |-> 0, d |-> 0]
Rat(x, y) == LET g == GCD(x, y) IN [k |-> "fin", n |-> x \div g, d |-> y \div g]
FInt(x) == [k |-> "fin", n |-> x, d |-> 1]

\* x / y on non-negative numpy floats.
FDiv(x, y) ==
    IF x.k = "nan" \/ y.k = "nan" THEN NaN
    ELSE IF x.k = "inf" THEN (IF y.k = "inf" THEN NaN ELSE PosInf)
    ELSE IF y.k = "inf" THEN FInt(0)
    ELSE IF y.n = 0 THEN (IF x.n = 0 THEN NaN ELSE PosInf)
    ELSE Rat(x.n * y.d, x.d * y.n)

\* x * y on non-negative numpy floats.
FMul(x, y) ==
    IF x.k = "nan" \/ y.k = "nan" THEN NaN
    ELSE IF x.k = "inf" \/ y.k = "inf"
         THEN (IF (x.k = "fin" /\ x.n = 0) \/ (y.k = "fin" /\ y.n = 0) THEN NaN ELSE PosInf)
    ELSE Rat(x.n * y.n, x.d * y.d)

\* x > 0: every comparison with nan is False.
FGtZero(x) == x.k = "inf" \/ (x.k = "fin" /\ x.n > 0)

\* np.log2(x), kept as its argument: log2of = 1 is the score 0,
\* log2of = 0 is -inf, log2of = nan is nan.
Log2(x) == [log2of |-> x]

\* The value 0 a DataFrame cell is initialised with (0 == log2(1.0)).
PmiZero == Log2(FInt(1))

\* Order of two finite-argument scores: log2(x) < log2(y).
PmiLess(s, t) ==
    /\ s.log2of.k = "fin" /\ t.log2of.k \in {"fin", "inf"}
    /\ \/ t.log2of.k = "inf"
       \/ s.log2of.n * t.log2of.d < t.log2of.n * s.log2of.d

(***************************************************************************)
(* load_and_extract_hashtags                                               *)
(***************************************************************************)
\* A post: has = ('hashtags' in post), hashtags = post['hashtags'].
NoField == [has |-> FALSE, hashtags |-> <<>>]
Post(h) == [has |-> TRUE, hashtags |-> h]
PostKinds(t) == {NoField} \cup {Post(h) : h \in SeqUpTo(RawTags, t)}

\* The parsed inputs of at most m posts carrying at most t tags in all.
RECURSIVE Inputs(_, _)
Inputs(m, t) ==
    IF m = 0 THEN {<<>>}
    ELSE {<<>>} \cup
         UNION {{<<r>> \o rest : rest \in Inputs(m - 1, t - Len(r.hashtags))} :
                r \in PostKinds(t)}

\* [tag.lower() for tag in post['hashtags']]
LowerAll(h) == [j \in 1..Len(h) |-> Lower(h[j])]

\* The loop over data from post k on, acc being all_post_hashtags so far.
RECURSIVE LoadAndExtract(_, _, _)
LoadAndExtract(data, k, acc) ==
    IF k > Len(data) THEN acc
    ELSE LET post == data[k] IN
         IF post.has
         THEN LET hashtags == LowerAll(post.hashtags) IN
              IF hashtags # <<>>
              THEN LoadAndExtract(data, k + 1, Append(acc, hashtags))
              ELSE LoadAndExtract(data, k + 1, acc)
         ELSE LoadAndExtract(data, k + 1, acc)

(***************************************************************************)
(* calculate_cooccurrence_matrix                                           *)
(***************************************************************************)
\* sorted(list(set(...))) over tags.
RECURSIVE SortedTags(_)
SortedTags(S) ==
    IF S = {} THEN <<>>
    ELSE LET mn == CHOOSE x \in S : \A y \in S : ~TagLess(y, x)
         IN <<mn>> \o SortedTags(S \ {mn})

\* set([tag for sublist in hashtag_lists for tag in sublist])
AllTags(hashtag_lists) ==
    UNION {{hashtag_lists[p][j] : j \in 1..Len(hashtag_lists[p])} :
           p \in 1..Len(hashtag_lists)}

\* pd.DataFrame(0, index=unique_hashtags, columns=unique_hashtags)
ZeroMatrix(V) == [c \in V \X V |-> 0]

\* itertools.combinations(hashtags, 2) from positions (p, q) on.
RECURSIVE CombinationsFrom(_, _, _)
CombinationsFrom(h, p, q) ==
    IF p >= Len(h) THEN <<>>
    ELSE IF q > Len(h) THEN CombinationsFrom(h, p + 1, p + 2)
    ELSE <<<<h[p], h[q]>>>> \o CombinationsFrom(h, p, q + 1)

\* Pairs of the tags of a post with the repetitions removed first.
RECURSIVE Dedup(_)
Dedup(h) ==
    IF h = <<>> THEN <<>>
    ELSE LET r == Dedup(SubSeq(h, 1, Len(h) - 1)) IN
         IF \E j \in 1..Len(r) : r[j] = h[Len(h)] THEN r ELSE Append(r, h[Len(h)])
CombinationsDedup(h) == CombinationsFrom(Dedup(h), 1, 2)

\* combinations(hashtags, 2): the positional pairs, in itertools order.
Combinations(h) == CombinationsFrom(h, 1, 2)

\* Only the first of the two increments.
IncrementOneSided(m, tag1, tag2) == [m EXCEPT ![<<tag1, tag2>>] = @ + 1]

\* matrix.loc[tag1, tag2] += 1; matrix.loc[tag2, tag1] += 1
IncrementPair(m, tag1, tag2) ==
    LET m1 == [m EXCEPT ![<<tag1, tag2>>] = @ + 1]
    IN [m1 EXCEPT ![<<tag2, tag1>>] = @ + 1]

\* The inner loop over the combinations of one post.
RECURSIVE ApplyPairs(_, _)
ApplyPairs(m, pairs) ==
    IF pairs = <<>> THEN m
    ELSE ApplyPairs(IncrementPair(m, Head(pairs)[1], Head(pairs)[2]), Tail(pairs))

(***************************************************************************)
(* calculate_pmi                                                           *)
(***************************************************************************)
\* The index (= columns) of a matrix: the sorted vocabulary.
TagsOf(m) == {c[1] : c \in DOMAIN m}
Index(m) == SortedTags(TagsOf(m))

\* The sum without the division by 2.
TotalNotHalved(m) == FInt(SumFn(m, DOMAIN m))

\* cooccurrence_matrix.sum().sum() / 2
TotalCooccurrences(m) == FDiv(FInt(SumFn(m, DOMAIN m)), FInt(2))

\* cooccurrence_matrix.sum()[t]: the sum of column t.
ColumnSum(m, t) == SumFn([r \in TagsOf(m) |-> m[<<r, t>>]], TagsOf(m))

\* Marginals normalised to sum to 1 (the column sums over twice the total).
MarginalProbsNormalised(m, total) ==
    [t \in TagsOf(m) |-> FDiv(FInt(ColumnSum(m, t)), FMul(FInt(2), total))]

\* cooccurrence_matrix.sum() / total_cooccurrences
MarginalProbs(m, total) == [t \in TagsOf(m) |-> FDiv(FInt(ColumnSum(m, t)), total)]

\* Guards that differ from joint_prob > 0 on 0 and on nan.
JointNotNegative(joint) == joint.k \in {"fin", "inf"}
JointNotLeZero(joint) == ~(joint.k = "fin" /\ joint.n = 0)

\* if joint_prob > 0
JointPositive(joint) == FGtZero(joint)

\* One cell of pmi_matrix after the double loop.
PmiEntry(m, total, marginal, tag1, tag2) ==
    LET joint_prob == FDiv(FInt(m[<<tag1, tag2>>]), total) IN
    IF tag1 # tag2 /\ JointPositive(joint_prob)
    THEN Log2(FDiv(joint_prob, FMul(marginal[tag1], marginal[tag2])))
    ELSE PmiZero

CalculatePmi(m, total, marginal) ==
    [c \in DOMAIN m |-> PmiEntry(m, total, marginal, c[1], c[2])]

(***************************************************************************)
(* get_top_collocations                                                    *)
(***************************************************************************)
\* The double loop building pmi_values, from row r and column c on.
RECURSIVE PmiValuesFrom(_, _, _, _)
PmiValuesFrom(pmi, idx, r, c) ==
    IF r > Len(idx) THEN <<>>
    ELSE IF c > Len(idx) THEN PmiValuesFrom(pmi, idx, r + 1, 1)
    ELSE (IF TagLess(idx[r], idx[c])
          THEN <<[tag1 |-> idx[r], tag2 |-> idx[c], pmi |-> pmi[<<idx[r], idx[c]>>]]>>
          ELSE <<>>) \o PmiValuesFrom(pmi, idx, r, c + 1)

PmiValues(pmi) == PmiValuesFrom(pmi, Index(pmi), 1, 1)

Perms(k) == {f \in [1..k -> 1..k] : \A x, y \in 1..k : f[x] = f[y] => x = y}
Reorder(s, f) == [j \in 1..Len(s) |-> s[f[j]]]

\* The orders an ascending sort may leave.
SortAscending(s) ==
    {t \in {Reorder(s, f) : f \in Perms(Len(s))} :
        \A j \in 1..(Len(t) - 1) : ~PmiLess(t[j + 1].pmi, t[j].pmi)}

\* sort_values('pmi', ascending=False) with the default kind='quicksort',
\* which is not stable: every order with non-increasing pmi is an outcome.
SortValues(s) ==
    {t \in {Reorder(s, f) : f \in Perms(Len(s))} :
        \A j \in 1..(Len(t) - 1) : ~PmiLess(t[j].pmi, t[j + 1].pmi)}

\* .head(k), k >= 0
HeadN(s, k) == SubSeq(s, 1, Min(k, Len(s)))

GetTopCollocations(pmi, k) == {HeadN(t, k) : t \in SortValues(PmiValues(pmi))}

(***************************************************************************)
(* analyze_hashtag_collocations as a state machine                         *)
(***************************************************************************)
Init ==
    /\ records \in Inputs(MaxRecords, MaxTotalTags)
    /\ pc = "extract"
    /\ i = 1
    /\ all_post_hashtags = <<>>
    /\ unique_hashtags = <<>>
    /\ cooccurrence_matrix = <<>>
    /\ total_cooccurrences = FInt(0)
    /\ marginal_probs = <<>>
    /\ pmi_matrix = <<>>
    /\ n = DefaultN
    /\ top_collocations = <<>>

\* hashtag_lists = load_and_extract_hashtags(json_data)
Extract ==
    /\ pc = "extract"
    /\ all_post_hashtags' = LoadAndExtract(records, 1, <<>>)
    /\ pc' = "build"
    /\ UNCHANGED <<records, i, unique_hashtags, cooccurrence_matrix,
                   total_cooccurrences, marginal_probs, pmi_matrix, n,
                   top_collocations>>

\* calculate_cooccurrence_matrix up to the loop over the posts.
BuildInit ==
    /\ pc = "build"
    /\ unique_hashtags' = SortedTags(AllTags(all_post_hashtags))
    /\ cooccurrence_matrix' = ZeroMatrix(AllTags(all_post_hashtags))
    /\ i' = 1
    /\ pc' = "count"
    /\ UNCHANGED <<records, all_post_hashtags, total_cooccurrences,
                   marginal_probs, pmi_matrix, n, top_collocations>>

\* One iteration of "for hashtags in hashtag_lists".
ProcessPost ==
    /\ pc = "count"
    /\ i <= Len(all_post_hashtags)
    /\ cooccurrence_matrix' =
           ApplyPairs(cooccurrence_matrix, Combinations(all_post_hashtags[i]))
    /\ i' = i + 1
    /\ UNCHANGED <<records, pc, all_post_hashtags, unique_hashtags,
                   total_cooccurrences, marginal_probs, pmi_matrix, n,
                   top_collocations>>

\* The loop is over: calculate_cooccurrence_matrix returns.
BuildReturn ==
    /\ pc = "count"
    /\ i > Len(all_post_hashtags)
    /\ pc' = "pmi"
    /\ UNCHANGED <<records, i, all_post_hashtags, unique_hashtags,
                   cooccurrence_matrix, total_cooccurrences, marginal_probs,
                   pmi_matrix, n, top_collocations>>

\* pmi_matrix = calculate_pmi(cooccurrence_matrix)
CalcPmi ==
    /\ pc = "pmi"
    /\ total_cooccurrences' = TotalCooccurrences(cooccurrence_matrix)
    /\ marginal_probs' = MarginalProbs(cooccurrence_matrix, total_cooccurrences')
    /\ pmi_matrix' = CalculatePmi(cooccurrence_matrix, total_cooccurrences',
                                  marginal_probs')
    /\ pc' = "rank"
    /\ UNCHANGED <<records, i, all_post_hashtags, unique_hashtags,
                   cooccurrence_matrix, n, top_collocations>>

\* top_collocations = get_top_collocations(pmi_matrix, n)
Rank ==
    /\ pc = "rank"
    /\ top_collocations' \in GetTopCollocations(pmi_matrix, n)
    /\ pc' = "done"
    /\ UNCHANGED <<records, i, all_post_hashtags, unique_hashtags,
                   cooccurrence_matrix, total_cooccurrences, marginal_probs,
                   pmi_matrix, n>>

Next == Extract \/ BuildInit \/ ProcessPost \/ BuildReturn \/ CalcPmi \/ Rank

Spec == Init /\ [][Next]_vars

(***************************************************************************)
(* get_top_collocations on its own: every symmetric, zero-diagonal PMI     *)
(* matrix over a vocabulary within Tags with scores -1, 0 or 1, and every  *)
(* n in 0..MaxN.                                                           *)
(***************************************************************************)
RankScores == {Log2(Rat(1, 2)), PmiZero, Log2(FInt(2))}

UpperPairs(V) == {c \in V \X V : TagLess(c[1], c[2])}

PmiMatrices(V) ==
    {[c \in V \X V |-> IF c[1] = c[2] THEN PmiZero
                       ELSE IF TagLess(c[1], c[2]) THEN u[c]
                       ELSE u[<<c[2], c[1]>>]] :
        u \in [UpperPairs(V) -> RankScores]}

InitRank ==
    /\ \E V \in SUBSET Tags :
          /\ unique_hashtags = SortedTags(V)
          /\ cooccurrence_matrix = ZeroMatrix(V)
          /\ pmi_matrix \in PmiMatrices(V)
    /\ n \in 0..MaxN
    /\ pc = "rank"
    /\ records = <<>>
    /\ i = 1
    /\ all_post_hashtags = <<>>
    /\ total_cooccurrences = FInt(0)
    /\ marginal_probs = <<>>
    /\ top_collocations = <<>>

SpecRank == InitRank /\ [][Rank]_vars

(***************************************************************************)
(* The pipeline on three posts of two tags each, the shape of the worked   *)
(* example.                                                                *)
(***************************************************************************)
Example == <<Post(<<"a", "b">>), Post(<<"a", "b">>), Post(<<"a", "c">>)>>

InitExample ==
    /\ records \in {[j \in 1..3 |-> Post(hs[j])] : hs \in [1..3 -> [1..2 -> RawTags]]}
    /\ pc = "extract"
    /\ i = 1
    /\ all_post_hashtags = <<>>
    /\ unique_hashtags = <<>>
    /\ cooccurrence_matrix = <<>>
    /\ total_cooccurrences = FInt(0)
    /\ marginal_probs = <<>>
    /\ pmi_matrix = <<>>
    /\ n = DefaultN
    /\ top_collocations = <<>>

SpecExample == InitExample /\ [][Next]_vars

(***************************************************************************)
(* Properties                                                              *)
(***************************************************************************)
Built == pc \in {"count", "pmi", "rank", "done"}
Counted == pc \in {"pmi", "rank", "done"}
PmiDone == pc \in {"rank", "done"}

\* The tags of post p of all_post_hashtags, as a set.
TagSet(p) == {all_post_hashtags[p][j] : j \in 1..Len(all_post_hashtags[p])}

\* The number of positions of post p that hold tag a.
Occ(a, p) == Cardinality({j \in 1..Len(all_post_hashtags[p]) : all_post_hashtags[p][j] = a})

\* The positional 2-combinations of the first k posts: sum of len*(len-1)/2.
PairCount(k) ==
    SumFn([p \in 1..k |-> (Len(all_post_hashtags[p]) * (Len(all_post_hashtags[p]) - 1)) \div 2],
          1..k)

\* C1: after every processed post and at the end, the diagonal of the
\* co-occurrence matrix is zero, also when a post repeats a tag.
C1_ZeroDiagonal ==
    Built => \A a \in TagsOf(cooccurrence_matrix) : cooccurrence_matrix[<<a, a>>] = 0

\* C2: the co-occurrence matrix is symmetric after each fully processed
\* post and in the returned result.
C2_Symmetric ==
    Built => \A c \in DOMAIN cooccurrence_matrix :
                cooccurrence_matrix[c] = cooccurrence_matrix[<<c[2], c[1]>>]

C2_Witness ==
    /\ pc = "pmi"
    /\ \E a, b \in TagsOf(cooccurrence_matrix) :
          a # b /\ cooccurrence_matrix[<<a, b>>] >= 2

\* C3: the sum of all entries of the co-occurrence matrix is twice the number
\* of positional 2-combinations of the posts processed so far (a post of
\* length k contributes k*(k-1)/2), and total_cooccurrences in calculate_pmi
\* is that number of pairs.
C3_CountConservation ==
    /\ Built => SumFn(cooccurrence_matrix, DOMAIN cooccurrence_matrix) = 2 * PairCount(i - 1)
    /\ PmiDone => total_cooccurrences = FInt(PairCount(Len(all_post_hashtags)))

C3_Witness ==
    /\ pc = "done"
    /\ total_cooccurrences = FInt(2)
    /\ Len(all_post_hashtags) = 2
    /\ \E a \in TagsOf(cooccurrence_matrix) : cooccurrence_matrix[<<a, a>>] > 0

\* C4 as stated: for distinct tags a and b the returned count matrix[a][b]
\* is the number of posts in which both a and b appear.
C4_PostCount ==
    Counted => \A a, b \in TagsOf(cooccurrence_matrix) :
        a # b => cooccurrence_matrix[<<a, b>>] =
                 Cardinality({p \in 1..Len(all_post_hashtags) :
                                 a \in TagSet(p) /\ b \in TagSet(p)})

\* C4 amended: for distinct tags a and b the returned count matrix[a][b] is
\* the sum over the posts of (occurrences of a in the post) times
\* (occurrences of b in the post).
C4_OccurrenceProducts ==
    Counted => \A a, b \in TagsOf(cooccurrence_matrix) :
        a # b => cooccurrence_matrix[<<a, b>>] =
                 SumFn([p \in 1..Len(all_post_hashtags) |-> Occ(a, p) * Occ(b, p)],
                       1..Len(all_post_hashtags))

C4_Witness ==
    /\ pc = "pmi"
    /\ \E a, b \in TagsOf(cooccurrence_matrix) :
          /\ a # b
          /\ cooccurrence_matrix[<<a, b>>] = 2
          /\ Cardinality({p \in 1..Len(all_post_hashtags) :
                             a \in TagSet(p) /\ b \in TagSet(p)}) = 1

\* Two raw tags that are the same letter, whatever the case.
SameLetter(s, t) == s = t \/ {s, t} = {"A", "a"}

\* The records that have the field with at least one tag, and the j-th of them.
Kept == {k \in 1..Len(records) : records[k].has /\ records[k].hashtags # <<>>}
NthKept(j) == CHOOSE k \in Kept : Cardinality({m \in Kept : m <= k}) = j

\* C5: the extractor returns, in record order, one tag list per record that
\* has the field with at least one tag, each tag the lowercase form of the
\* original in the original order; other records contribute nothing; tags
\* that differ only in case are one vocabulary entry.
C5_Extract ==
    /\ pc # "extract" =>
          /\ Len(all_post_hashtags) = Cardinality(Kept)
          /\ \A j \in 1..Len(all_post_hashtags) :
                LET raw == records[NthKept(j)].hashtags IN
                /\ Len(all_post_hashtags[j]) = Len(raw)
                /\ \A q \in 1..Len(raw) :
                      /\ all_post_hashtags[j][q] \in Tags
                      /\ SameLetter(all_post_hashtags[j][q], raw[q])
    /\ Built =>
          /\ \A x, y \in 1..Len(unique_hashtags) :
                SameLetter(unique_hashtags[x], unique_hashtags[y]) => x = y
          /\ \A k \in Kept : \A q \in 1..Len(records[k].hashtags) :
                \E x \in 1..Len(unique_hashtags) :
                    SameLetter(unique_hashtags[x], records[k].hashtags[q])

C5_Witness ==
    /\ pc = "done"
    /\ records = <<NoField, Post(<<"A", "a", "b">>)>>
    /\ all_post_hashtags = <<(<<"a", "a", "b">>)>>
    /\ unique_hashtags = <<"a", "b">>

\* C6: when the total number of co-occurrences is zero the pipeline runs to
\* its end and every entry of the PMI matrix is 0; with zero records the
\* vocabulary, both matrices and the collocation list are empty.
C6_ZeroTotal ==
    /\ (PmiDone /\ total_cooccurrences = FInt(0)) =>
          \A c \in DOMAIN pmi_matrix : pmi_matrix[c] = PmiZero
    /\ (pc = "done" /\ records = <<>>) =>
          /\ unique_hashtags = <<>>
          /\ cooccurrence_matrix = <<>>
          /\ pmi_matrix = <<>>
          /\ top_collocations = <<>>

C6_Witness ==
    /\ pc = "done"
    /\ total_cooccurrences = FInt(0)
    /\ Len(unique_hashtags) >= 2
    /\ Len(top_collocations) >= 1

\* C7: in the matrix calculate_pmi returns, every entry with a # b whose
\* co-occurrence count is 0 is exactly 0, and an entry with a # b differs
\* from its initial 0 only if the joint probability is greater than 0, in
\* which case it is a finite score.
C7_ZeroJoint ==
    PmiDone => \A c \in DOMAIN pmi_matrix :
        c[1] # c[2] =>
            /\ cooccurrence_matrix[c] = 0 => pmi_matrix[c] = PmiZero
            /\ pmi_matrix[c] # PmiZero =>
                  /\ cooccurrence_matrix[c] > 0
                  /\ FGtZero(total_cooccurrences)
                  /\ pmi_matrix[c].log2of.k = "fin"
                  /\ pmi_matrix[c].log2of.n > 0

C7_Witness ==
    /\ pc = "rank"
    /\ FGtZero(total_cooccurrences)
    /\ \E c, e \in DOMAIN pmi_matrix :
          /\ c[1] # c[2] /\ cooccurrence_matrix[c] = 0
          /\ e[1] # e[2] /\ pmi_matrix[e] # PmiZero

\* C8: get_top_collocations returns exactly min(n, |V|*(|V|-1)/2) entries,
\* each with tag1 < tag2 and the score of its pair, no unordered pair twice,
\* in non-increasing order of score, and no omitted pair scores strictly
\* more than a returned one.
C8_TopN ==
    pc = "done" =>
        LET V == TagsOf(pmi_matrix)
            t == top_collocations
        IN /\ Len(t) = Min(n, (Cardinality(V) * (Cardinality(V) - 1)) \div 2)
           /\ \A j \in 1..Len(t) :
                 /\ t[j].tag1 \in V /\ t[j].tag2 \in V
                 /\ TagLess(t[j].tag1, t[j].tag2)
                 /\ t[j].pmi = pmi_matrix[<<t[j].tag1, t[j].tag2>>]
           /\ \A j, k \in 1..Len(t) :
                 {t[j].tag1, t[j].tag2} = {t[k].tag1, t[k].tag2} => j = k
           /\ \A j \in 1..(Len(t) - 1) : ~PmiLess(t[j].pmi, t[j + 1].pmi)
           /\ \A c \in UpperPairs(V) :
                 (\A j \in 1..Len(t) : <<t[j].tag1, t[j].tag2>> # c) =>
                     \A j \in 1..Len(t) : ~PmiLess(t[j].pmi, pmi_matrix[c])

C8_Witness ==
    /\ pc = "done"
    /\ n = 2
    /\ Len(top_collocations) = 2
    /\ \E c \in UpperPairs(TagsOf(pmi_matrix)) :
          PmiLess(pmi_matrix[c], top_collocations[2].pmi)

\* C9: collocations with equal score appear in the order of the pair
\* enumeration (row tag ascending, then column tag ascending).
C9_StableTies ==
    pc = "done" =>
        \A j, k \in 1..Len(top_collocations) :
            (j < k /\ top_collocations[j].pmi = top_collocations[k].pmi) =>
                \/ TagLess(top_collocations[j].tag1, top_collocations[k].tag1)
                \/ /\ top_collocations[j].tag1 = top_collocations[k].tag1
                   /\ TagLess(top_collocations[j].tag2, top_collocations[k].tag2)

InList(a, b) ==
    \E j \in 1..Len(top_collocations) :
        top_collocations[j].tag1 = a /\ top_collocations[j].tag2 = b

ScoreZeroInList(a, b) ==
    \E j \in 1..Len(top_collocations) :
        /\ top_collocations[j].tag1 = a /\ top_collocations[j].tag2 = b
        /\ top_collocations[j].pmi = PmiZero

ExampleCounts ==
    /\ unique_hashtags = <<"a", "b", "c">>
    /\ cooccurrence_matrix[<<"a", "b">>] = 2
    /\ cooccurrence_matrix[<<"a", "c">>] = 1
    /\ cooccurrence_matrix[<<"b", "c">>] = 0
    /\ total_cooccurrences = FInt(3)

\* C10 as stated: on the posts [a,b], [a,b], [a,c] the counts are 2, 1, 0,
\* the total is 3, (a,b) and (a,c) are ranked tied at score 0 and the pair
\* (b,c) is absent from the list.
C10_PairAbsent ==
    (pc = "done" /\ records = Example) =>
        /\ ExampleCounts
        /\ ScoreZeroInList("a", "b") /\ ScoreZeroInList("a", "c")
        /\ ~InList("b", "c")

\* C10 amended: on the posts [a,b], [a,b], [a,c] the counts are 2, 1, 0,
\* the total is 3, and the list holds all three pairs, (a,b), (a,c) and
\* (b,c), each with score 0.
C10_AllPairsTied ==
    (pc = "done" /\ records = Example) =>
        /\ ExampleCounts
        /\ Len(top_collocations) = 3
        /\ ScoreZeroInList("a", "b") /\ ScoreZeroInList("a", "c")
        /\ ScoreZeroInList("b", "c")

C10_Witness == pc = "done" /\ records = Example /\ InList("b", "c")

====
